---- MODULE Spec2Model ----
(***************************************************************************)
(* Import-hook interception layer of ddtrace/internal/import_hooks/patch.py *)
(* : the patch()/unpatch() lifecycle, the three wrappers around the         *)
(* runtime's module-loading entry points and the dispatch of the registered *)
(* hooks that follows each wrapped call.                                    *)
(***************************************************************************)
EXTENDS Integers, Sequences, FiniteSets, TLC

(* ------------------------------ bounds --------------------------------- *)
\* registrations kept in the hook registry, over all module names
MaxHooks == 2
\* wrapper layers stacked on one entry point
MaxLayers == 2
\* wrappers installed by parties other than this layer
MaxThird == 1

(* ----------------------------- universe -------------------------------- *)
Threads == {"main", "other"}
MainThread == "main"

\* module names that application code imports and reloads
Names == {"alpha", "beta"}
\* `module_name = None`
NoneName == "None"
\* the empty module name, `__import__('')`
EmptyName == ""

\* a hook that returns and a hook that raises
HookKinds == {"hook_ok", "hook_raises"}

\* sys.version_info, (major, minor, micro); releaselevel and serial follow
\* micro and never decide a comparison against a 2-tuple
Versions == {<<2, 7, 18>>, <<3, 4, 10>>, <<3, 7, 4>>, <<3, 8, 0>>}

\* the entry points the layer wraps
FindAndLoad == "importlib._bootstrap._find_and_load_unlocked"
ImportlibReload == "importlib.reload"
BuiltinImport == "__builtins__.__import__"
BuiltinReload == "__builtins__.reload"
EntryPoints == {FindAndLoad, ImportlibReload, BuiltinImport, BuiltinReload}

\* the wrapper layers an entry point can carry, outermost first in the stack
OurLayers == {"wrapped_find_and_load_unlocked", "wrapped_reload", "wrapped_import"}
ThirdWrapt == "third_party_FunctionWrapper"
ThirdPlain == "third_party_closure"
ThirdLayers == {ThirdWrapt, ThirdPlain}

\* an attribute or key that does not exist on this runtime
Missing == <<"missing">>

VARIABLES
  version,      \* sys.version_info of the host runtime
  _patched,     \* the module-level flag of patch.py
  ep,           \* entry point -> stack of wrapper layers around the original
  sys_modules,  \* names in the module cache
  hooks,        \* the registry: module name -> registered hooks, in order
  frame,        \* per thread: the call in progress
  hist          \* record of the lifecycle calls made so far

vars == <<version, _patched, ep, sys_modules, hooks, frame, hist>>

(* ------------------------- version predicates -------------------------- *)
Min(a, b) == IF a <= b THEN a ELSE b

\* Python's tuple ordering: the first differing element decides, and a proper
\* prefix is smaller than the longer tuple
TupleLT(a, b) ==
  \/ \E i \in 1..Min(Len(a), Len(b)) :
        /\ a[i] < b[i]
        /\ \A j \in 1..(i - 1) : a[j] = b[j]
  \/ /\ Len(a) < Len(b)
     /\ \A j \in 1..Len(a) : a[j] = b[j]

TupleLE(a, b) == a = b \/ TupleLT(a, b)

PY3 == version[1] = 3

\* which entry points exist on the running interpreter
Exists(e) ==
  IF version[1] = 3
    THEN e \in {FindAndLoad, ImportlibReload, BuiltinImport}
    ELSE e \in {BuiltinImport, BuiltinReload}

(* ------------------------------ wrapt ---------------------------------- *)
\* wrapt.FunctionWrapper(wrapped, wrapper): a new object around `wrapped`
FunctionWrapper(wrapped, wrapper) == <<wrapper>> \o wrapped

\* isinstance(f, wrapt.FunctionWrapper)
IsFunctionWrapper(f) == Len(f) > 0 /\ Head(f) # ThirdPlain

\* f.__wrapped__
Unwrapped(f) == Tail(f)

OursDepth(f) == Cardinality({i \in 1..Len(f) : f[i] \in OurLayers})
ThirdDepth(f) == Cardinality({i \in 1..Len(f) : f[i] \in ThirdLayers})

(* ------------------------ _patch / _unpatch ---------------------------- *)
ModernTargets ==
  << [ep |-> FindAndLoad, wrapper |-> "wrapped_find_and_load_unlocked"],
     [ep |-> ImportlibReload, wrapper |-> "wrapped_reload"] >>

LegacyTargets ==
  << [ep |-> BuiltinImport, wrapper |-> "wrapped_import"],
     [ep |-> BuiltinReload, wrapper |-> "wrapped_reload"] >>

\* the branch _patch takes
PatchTargets ==
  IF PY3 THEN ModernTargets
  ELSE IF TupleLE(<<2, 7>>, version) THEN LegacyTargets
  ELSE << >>

\* the branch _unpatch takes
UnpatchTargets ==
  IF TupleLE(<<3, 4>>, version) /\ TupleLE(version, <<3, 8>>) THEN ModernTargets
  ELSE IF TupleLE(<<2, 7>>, version) THEN LegacyTargets
  ELSE << >>

NoOutcome == [kind |-> "none", val |-> ""]

IdleFrame ==
  [pc |-> "idle", op |-> "none", args |-> << >>, name |-> NoneName, todo |-> << >>,
   stack |-> << >>, pending |-> << >>, orig |-> NoOutcome, outcome |-> NoOutcome,
   log |-> << >>, cachedAtCall |-> FALSE, patchedAtCall |-> FALSE,
   wrapped |-> {}, before |-> << >>,
   passed |-> << >>, times |-> 1, received |-> << >>]

NoHist ==
  [ops |-> << >>, wrapped |-> {}, before |-> [e \in EntryPoints |-> << >>],
   exc |-> "none", result |-> "none"]

\* the last two lifecycle calls that completed
Remember(ops, op) == IF Len(ops) < 2 THEN Append(ops, op) ELSE <<ops[2], op>>

Init ==
  /\ version \in Versions
  /\ _patched = FALSE
  /\ ep = [e \in EntryPoints |-> IF Exists(e) THEN << >> ELSE Missing]
  /\ sys_modules = {}
  /\ hooks = [n \in Names |-> << >>]
  /\ frame = [t \in Threads |-> IdleFrame]
  /\ hist = NoHist

Idle(t) == frame[t].pc = "idle"

\* patch(): enter _patch
PatchCall(t) ==
  /\ Idle(t)
  /\ _patched \/ \A e \in EntryPoints : ep[e] # Missing => Len(ep[e]) < MaxLayers
  /\ frame' = [frame EXCEPT ![t] =
        [IdleFrame EXCEPT !.pc = "patch_check", !.op = "patch", !.before = ep]]
  /\ UNCHANGED <<version, _patched, ep, sys_modules, hooks, hist>>

\* patch() / unpatch() that let the exception of _patch / _unpatch through
Propagated(exc) == IF exc = "none" THEN "returned" ELSE "raised"

\* `try: _patch() except Exception: log.debug(...)`, and the same in unpatch():
\* the call returns None whether or not the inner function raised
Swallowed(exc) == "returned"

\* the lifecycle call of thread t ends, the inner function having raised exc
LifecycleReturn(t, f, exc) ==
  /\ frame' = [frame EXCEPT ![t] = IdleFrame]
  /\ hist' = [ops |-> Remember(hist.ops, f.op),
              wrapped |-> IF f.op = "patch" THEN f.wrapped ELSE hist.wrapped,
              before |-> IF f.op = "patch" THEN f.before ELSE hist.before,
              exc |-> exc,
              result |-> Swallowed(exc)]

\* _patch that sets the flag as soon as it has decided to patch
PatchCheckSetsFlag(t) ==
  /\ frame[t].pc = "patch_check"
  /\ IF _patched
       THEN /\ LifecycleReturn(t, frame[t], "none")
            /\ UNCHANGED _patched
       ELSE /\ \A e \in EntryPoints : ep[e] # Missing => Len(ep[e]) < MaxLayers
            /\ frame' = [frame EXCEPT ![t].pc = "patch_wrap", ![t].todo = PatchTargets]
            /\ _patched' = TRUE
            /\ UNCHANGED hist
  /\ UNCHANGED <<version, ep, sys_modules, hooks>>

\* `if _patched: return`
PatchCheck(t) ==
  /\ frame[t].pc = "patch_check"
  /\ IF _patched
       THEN LifecycleReturn(t, frame[t], "none")
       ELSE /\ \A e \in EntryPoints : ep[e] # Missing => Len(ep[e]) < MaxLayers
            /\ frame' = [frame EXCEPT ![t].pc = "patch_wrap", ![t].todo = PatchTargets]
            /\ UNCHANGED hist
  /\ UNCHANGED <<version, _patched, ep, sys_modules, hooks>>

\* wrap the next target; a missing target raises, and patch() swallows it
PatchWrap(t) ==
  /\ frame[t].pc = "patch_wrap"
  /\ frame[t].todo # << >>
  /\ LET tg == Head(frame[t].todo) IN
       IF ep[tg.ep] = Missing
         THEN /\ LifecycleReturn(t, frame[t], IF PY3 THEN "AttributeError" ELSE "KeyError")
              /\ UNCHANGED ep
         ELSE /\ ep' = [ep EXCEPT ![tg.ep] = FunctionWrapper(ep[tg.ep], tg.wrapper)]
              /\ frame' = [frame EXCEPT ![t].todo = Tail(frame[t].todo),
                                        ![t].wrapped = frame[t].wrapped \cup {tg.ep}]
              /\ UNCHANGED hist
  /\ UNCHANGED <<version, _patched, sys_modules, hooks>>

\* `_patched = True`
PatchSet(t) ==
  /\ frame[t].pc = "patch_wrap"
  /\ frame[t].todo = << >>
  /\ _patched' = TRUE
  /\ LifecycleReturn(t, frame[t], "none")
  /\ UNCHANGED <<version, ep, sys_modules, hooks>>

\* unpatch(): enter _unpatch
UnpatchCall(t) ==
  /\ Idle(t)
  /\ frame' = [frame EXCEPT ![t] =
        [IdleFrame EXCEPT !.pc = "unpatch_check", !.op = "unpatch"]]
  /\ UNCHANGED <<version, _patched, ep, sys_modules, hooks, hist>>

\* `if not _patched: return`
UnpatchCheck(t) ==
  /\ frame[t].pc = "unpatch_check"
  /\ IF ~_patched
       THEN LifecycleReturn(t, frame[t], "none")
       ELSE /\ frame' = [frame EXCEPT ![t].pc = "unpatch_clear"]
            /\ UNCHANGED hist
  /\ UNCHANGED <<version, _patched, ep, sys_modules, hooks>>

\* `_patched = False`, then the version branch
UnpatchClear(t) ==
  /\ frame[t].pc = "unpatch_clear"
  /\ _patched' = FALSE
  /\ frame' = [frame EXCEPT ![t].pc = "unpatch_restore", ![t].todo = UnpatchTargets]
  /\ UNCHANGED <<version, ep, sys_modules, hooks, hist>>

\* `if isinstance(f, wrapt.FunctionWrapper): f = f.__wrapped__` for the next
\* target; looking up a missing target raises, and unpatch() swallows it
UnpatchRestore(t) ==
  /\ frame[t].pc = "unpatch_restore"
  /\ frame[t].todo # << >>
  /\ LET tg == Head(frame[t].todo) IN
       IF ep[tg.ep] = Missing
         THEN /\ LifecycleReturn(t, frame[t],
                   IF tg.ep \in {BuiltinImport, BuiltinReload} THEN "KeyError"
                   ELSE "AttributeError")
              /\ UNCHANGED ep
         ELSE /\ ep' = [ep EXCEPT ![tg.ep] =
                    IF IsFunctionWrapper(ep[tg.ep]) THEN Unwrapped(ep[tg.ep]) ELSE ep[tg.ep]]
              /\ frame' = [frame EXCEPT ![t].todo = Tail(frame[t].todo)]
              /\ UNCHANGED hist
  /\ UNCHANGED <<version, _patched, sys_modules, hooks>>

UnpatchReturn(t) ==
  /\ frame[t].pc = "unpatch_restore"
  /\ frame[t].todo = << >>
  /\ LifecycleReturn(t, frame[t], "none")
  /\ UNCHANGED <<version, _patched, ep, sys_modules, hooks>>

(* --------------------------- hook registry ----------------------------- *)
Registered == Len(hooks["alpha"]) + Len(hooks["beta"])

\* hooks.register(name, hook)
Register(t, n, k) ==
  /\ Idle(t)
  /\ Registered < MaxHooks
  /\ hooks' = [hooks EXCEPT ![n] = Append(hooks[n], k)]
  /\ UNCHANGED <<version, _patched, ep, sys_modules, frame, hist>>

Event(ev, n, i) == [ev |-> ev, name |-> n, idx |-> i]

\* hooks.call that gives up at the first hook that raises
HooksCallStopsAtFailure(name, registry, modules) ==
  IF name \notin DOMAIN registry \/ registry[name] = << >>
    THEN [fired |-> << >>, raised |-> "no"]
  ELSE IF name \notin modules
    THEN [fired |-> << >>, raised |-> "no"]
  ELSE LET bad == {i \in 1..Len(registry[name]) : registry[name][i] = "hook_raises"}
           last == IF bad = {} THEN Len(registry[name])
                   ELSE CHOOSE i \in bad : \A j \in bad : i <= j
       IN [fired |-> [i \in 1..last |-> Event("hook", name, i)],
           raised |-> IF bad = {} THEN "no" ELSE "Exception"]

\* hooks.call that does not look whether the module is loaded
HooksCallUnloaded(name, registry, modules) ==
  IF name \notin DOMAIN registry \/ registry[name] = << >>
    THEN [fired |-> << >>, raised |-> "no"]
  ELSE [fired |-> [i \in 1..Len(registry[name]) |-> Event("hook", name, i)],
        raised |-> "no"]

\* hooks.call(name): nothing for a name without hooks, nothing for a module that
\* is not loaded; otherwise every hook in registration order, each failure
\* caught and logged on its own
HooksCall(name, registry, modules) ==
  IF name \notin DOMAIN registry \/ registry[name] = << >>
    THEN [fired |-> << >>, raised |-> "no"]
  ELSE IF name \notin modules
    THEN [fired |-> << >>, raised |-> "no"]
  ELSE [fired |-> [i \in 1..Len(registry[name]) |-> Event("hook", name, i)],
        raised |-> "no"]

(* ----------------------------- wrappers -------------------------------- *)
\* `return wrapped(*args, **kwargs)`: nothing before the call, nothing after
PlainCall == [pre |-> << >>, post |-> << >>]

\* exec_and_call_hooks that calls the hooks before the wrapped function
exec_and_call_hooks_first(module_name) == [pre |-> <<module_name>>, post |-> << >>]

\* exec_and_call_hooks: the wrapped call first, hooks.call(module_name) in the
\* `finally` that follows it
exec_and_call_hooks(module_name) == [pre |-> << >>, post |-> <<module_name>>]

\* a `finally` block that returns on its own and so drops the wrapped outcome
FinallyReturns(outcome, call) == [kind |-> "return", val |-> NoneName]

\* what the `finally` block leaves of the wrapped call's outcome: `except
\* Exception` swallows a failure of hooks.call, anything else replaces the outcome
FinallyOutcome(outcome, call) ==
  IF call.raised \in {"no", "Exception"}
    THEN outcome
    ELSE [kind |-> "raise", val |-> call.raised]

\* the name importlib.reload and the reload wrapper read off a module object
SpecOrName(m) ==
  IF m.spec # NoneName THEN m.spec
  ELSE m.name

\* wrapped_reload that gives up on dispatch when it finds no module name
wrapped_reload_gives_up(args) ==
  LET module_name ==
        IF Len(args) = 0 THEN NoneName
        ELSE IF PY3 THEN SpecOrName(args[1])
        ELSE args[1].name
  IN IF module_name = NoneName THEN PlainCall ELSE exec_and_call_hooks(module_name)

wrapped_reload(args) ==
  LET module_name ==
        IF Len(args) = 0 THEN NoneName
        ELSE IF PY3 THEN SpecOrName(args[1])
        ELSE args[1].name
  IN exec_and_call_hooks(module_name)

wrapped_find_and_load_unlocked(args) ==
  IF Len(args) = 0 THEN PlainCall
  ELSE exec_and_call_hooks(args[1])

\* wrapped_import without the look into sys.modules
wrapped_import_unchecked(args, modules) ==
  IF Len(args) = 0 THEN PlainCall
  ELSE exec_and_call_hooks(args[1])

wrapped_import(args, modules) ==
  IF Len(args) = 0 THEN PlainCall
  ELSE IF args[1] # EmptyName /\ args[1] \notin modules
    THEN exec_and_call_hooks(args[1])
  ELSE PlainCall

\* wrappers whose import wrapper, after exec_and_call_hooks, falls through to
\* the plain call as well
WrappedCallsFallThrough(layer, args, modules) ==
  IF layer = "wrapped_import" /\ Len(args) > 0
       /\ args[1] # EmptyName /\ args[1] \notin modules
    THEN <<args, args>>
    ELSE <<args>>

\* the calls `wrapped(*args, **kwargs)` one wrapper layer makes, each with the
\* arguments it passes: one call with the wrapper's own arguments on every path
WrappedCalls(layer, args, modules) ==
  CASE layer = "wrapped_find_and_load_unlocked" ->
         IF Len(args) = 0 THEN <<args>>   \* in the except branch
         ELSE <<args>>                    \* in exec_and_call_hooks
    [] layer = "wrapped_import" ->
         IF Len(args) = 0 THEN <<args>>   \* in the except branch
         ELSE IF args[1] # EmptyName /\ args[1] \notin modules
           THEN <<args>>                  \* in exec_and_call_hooks
         ELSE <<args>>                    \* the last line
    [] layer = "wrapped_reload" -> <<args>>
    [] OTHER -> <<args>>

\* what one wrapper layer does around its call of the layer below
LayerPlan(layer, args, modules) ==
  CASE layer = "wrapped_find_and_load_unlocked" -> wrapped_find_and_load_unlocked(args)
    [] layer = "wrapped_import" -> wrapped_import(args, modules)
    [] layer = "wrapped_reload" -> wrapped_reload(args)
    [] OTHER -> PlainCall

(* ----------------------- the original entry points --------------------- *)
Return(v) == [kind |-> "return", val |-> v]
Raise(e) == [kind |-> "raise", val |-> e]

\* _find_and_load_unlocked / __import__: a cached module is returned, a found
\* one is loaded and cached, anything else raises and caches nothing
OrigImport(args, modules, found) ==
  IF Len(args) = 0 THEN [out |-> Raise("TypeError"), modules |-> modules]
  ELSE IF args[1] = EmptyName THEN [out |-> Raise("ValueError"), modules |-> modules]
  ELSE IF args[1] \in modules THEN [out |-> Return(args[1]), modules |-> modules]
  ELSE IF found THEN [out |-> Return(args[1]), modules |-> modules \cup {args[1]}]
  ELSE [out |-> Raise("ImportError"), modules |-> modules]

\* the module name reload() itself works with
ReloadName(args) ==
  IF Len(args) = 0 THEN NoneName
  ELSE IF PY3 THEN SpecOrName(args[1])
  ELSE args[1].name

\* reload: only a module of the cache is re-executed, and its body may raise
OrigReload(args, modules, ok) ==
  IF ReloadName(args) = NoneName THEN [out |-> Raise("TypeError"), modules |-> modules]
  ELSE IF ReloadName(args) \notin modules THEN [out |-> Raise("ImportError"), modules |-> modules]
  ELSE IF ok THEN [out |-> Return(ReloadName(args)), modules |-> modules]
  ELSE [out |-> Raise("Exception"), modules |-> modules]

(* ------------------------------ calls ---------------------------------- *)
ImportArgs == {<< >>} \cup {<<n>> : n \in Names} \cup (IF PY3 THEN {} ELSE {<<EmptyName>>})

ModuleObjects ==
  {[spec |-> n, name |-> n] : n \in Names}
     \cup {[spec |-> NoneName, name |-> n] : n \in Names \cup {NoneName}}

ReloadArgs == {<< >>} \cup {<<m>> : m \in ModuleObjects}

\* `import name`, or a direct call of the load entry point
ImportCall(t, args) ==
  /\ Idle(t)
  \* importlib holds the per-module lock around _find_and_load_unlocked
  /\ PY3 => \A u \in Threads \ {t} :
              ~(frame[u].op = "import" /\ frame[u].pc # "done"
                  /\ Len(args) > 0 /\ frame[u].args = args)
  /\ LET n == IF Len(args) = 0 THEN NoneName ELSE args[1]
         f == [IdleFrame EXCEPT !.op = "import", !.args = args, !.passed = args, !.name = n,
                                !.cachedAtCall = (n \in sys_modules),
                                !.patchedAtCall = _patched]
     IN IF PY3 /\ n \in sys_modules
          \* the runtime serves a cached module without reaching the entry point
          THEN frame' = [frame EXCEPT ![t] =
                 [f EXCEPT !.pc = "done", !.orig = Return(n), !.outcome = Return(n),
                           !.log = <<Event("return", n, 0)>>]]
          ELSE frame' = [frame EXCEPT ![t] =
                 [f EXCEPT !.pc = "enter",
                           !.stack = IF PY3 THEN ep[FindAndLoad] ELSE ep[BuiltinImport]]]
  /\ UNCHANGED <<version, _patched, ep, sys_modules, hooks, hist>>

\* `reload(module)`
ReloadCall(t, args) ==
  /\ Idle(t)
  /\ frame' = [frame EXCEPT ![t] =
        [IdleFrame EXCEPT !.pc = "enter", !.op = "reload", !.args = args, !.passed = args,
                          !.name = ReloadName(args),
                          !.cachedAtCall = (ReloadName(args) \in sys_modules),
                          !.patchedAtCall = _patched,
                          !.stack = IF PY3 THEN ep[ImportlibReload] ELSE ep[BuiltinReload]]]
  /\ UNCHANGED <<version, _patched, ep, sys_modules, hooks, hist>>

RECURSIVE Dispatch(_, _, _)
\* hooks.call for each name of a wrapper's list, folded into one result
Dispatch(names, registry, modules) ==
  IF names = << >> THEN [fired |-> << >>, raised |-> "no"]
  ELSE LET c == HooksCall(Head(names), registry, modules)
           r == Dispatch(Tail(names), registry, modules)
       IN [fired |-> c.fired \o r.fired,
           raised |-> IF c.raised # "no" THEN c.raised ELSE r.raised]

\* control enters the outermost remaining wrapper layer
EnterWrapper(t) ==
  /\ frame[t].pc = "enter"
  /\ frame[t].stack # << >>
  /\ LET f == frame[t]
         plan == LayerPlan(Head(f.stack), f.passed, sys_modules)
         calls == WrappedCalls(Head(f.stack), f.passed, sys_modules)
         d == Dispatch(plan.pre, hooks, sys_modules)
     IN frame' = [frame EXCEPT ![t] =
          [f EXCEPT !.stack = Tail(f.stack),
                    !.passed = calls[1],
                    !.times = f.times * Len(calls),
                    !.log = f.log \o d.fired,
                    !.pending = IF plan.post = << >> THEN f.pending
                                ELSE <<plan.post>> \o f.pending]]
  /\ UNCHANGED <<version, _patched, ep, sys_modules, hooks, hist>>

\* the innermost wrapper calls the original entry point
OrigBegin(t) ==
  /\ frame[t].pc = "enter"
  /\ frame[t].stack = << >>
  /\ frame' = [frame EXCEPT ![t].pc = "in_orig",
                            ![t].received = Append(frame[t].received, frame[t].passed),
                            ![t].log = Append(frame[t].log, Event("orig_begin", frame[t].name, 0))]
  /\ UNCHANGED <<version, _patched, ep, sys_modules, hooks, hist>>

\* the original entry point returns or raises
OrigEnd(t, ok) ==
  /\ frame[t].pc = "in_orig"
  /\ LET f == frame[t]
         r == IF f.op = "import" THEN OrigImport(f.passed, sys_modules, ok)
              ELSE OrigReload(f.passed, sys_modules, ok)
     IN /\ sys_modules' = r.modules
        /\ frame' = [frame EXCEPT ![t] =
             [f EXCEPT !.pc = IF f.times > 1 THEN "enter" ELSE "unwind",
                       !.times = IF f.times > 1 THEN f.times - 1 ELSE f.times,
                       !.orig = r.out, !.outcome = r.out,
                       !.log = Append(f.log, Event("orig_end", f.name, 0))]]
  /\ UNCHANGED <<version, _patched, ep, hooks, hist>>

\* the `finally` block of the innermost wrapper still on the call stack
Unwind(t) ==
  /\ frame[t].pc = "unwind"
  /\ frame[t].pending # << >>
  /\ LET f == frame[t]
         d == Dispatch(Head(f.pending), hooks, sys_modules)
     IN frame' = [frame EXCEPT ![t] =
          [f EXCEPT !.pending = Tail(f.pending),
                    !.log = f.log \o d.fired,
                    !.outcome = FinallyOutcome(f.outcome, d)]]
  /\ UNCHANGED <<version, _patched, ep, sys_modules, hooks, hist>>

\* the outermost wrapper hands the outcome to the caller
CallReturn(t) ==
  /\ frame[t].pc = "unwind"
  /\ frame[t].pending = << >>
  /\ frame' = [frame EXCEPT ![t].pc = "done",
                            ![t].log = Append(frame[t].log, Event("return", frame[t].name, 0))]
  /\ UNCHANGED <<version, _patched, ep, sys_modules, hooks, hist>>

\* the caller carries on
CallDone(t) ==
  /\ frame[t].pc = "done"
  /\ frame' = [frame EXCEPT ![t] = IdleFrame]
  /\ UNCHANGED <<version, _patched, ep, sys_modules, hooks, hist>>

(* ---------------------------- third party ------------------------------ *)
ThirdInstalled ==
  Cardinality({e \in EntryPoints : ep[e] # Missing /\ ThirdDepth(ep[e]) > 0})

\* another library wraps an entry point, with wrapt or with a plain closure
ThirdPartyWrap(t, e, layer) ==
  /\ Idle(t)
  /\ ep[e] # Missing
  /\ Len(ep[e]) < MaxLayers
  /\ ThirdInstalled < MaxThird
  /\ ep' = [ep EXCEPT ![e] = <<layer>> \o ep[e]]
  /\ hist' = [hist EXCEPT !.ops = << >>]
  /\ UNCHANGED <<version, _patched, sys_modules, hooks, frame>>

\* every call is made from one thread, one call at a time
Next ==
  \E t \in {MainThread} :
    \/ PatchCall(t)
    \/ PatchCheck(t)
    \/ PatchWrap(t)
    \/ PatchSet(t)
    \/ UnpatchCall(t)
    \/ UnpatchCheck(t)
    \/ UnpatchClear(t)
    \/ UnpatchRestore(t)
    \/ UnpatchReturn(t)
    \/ \E n \in Names, k \in HookKinds : Register(t, n, k)
    \/ \E args \in ImportArgs : ImportCall(t, args)
    \/ \E args \in ReloadArgs : ReloadCall(t, args)
    \/ EnterWrapper(t)
    \/ OrigBegin(t)
    \/ \E ok \in BOOLEAN : OrigEnd(t, ok)
    \/ Unwind(t)
    \/ CallReturn(t)
    \/ CallDone(t)

Spec == Init /\ [][Next]_vars

\* the lifecycle alone, with another library wrapping the same entry points
NextThird ==
  \E t \in {MainThread} :
    \/ PatchCall(t)
    \/ PatchCheck(t)
    \/ PatchWrap(t)
    \/ PatchSet(t)
    \/ UnpatchCall(t)
    \/ UnpatchCheck(t)
    \/ UnpatchClear(t)
    \/ UnpatchRestore(t)
    \/ UnpatchReturn(t)
    \/ \E e \in EntryPoints, layer \in ThirdLayers : ThirdPartyWrap(t, e, layer)

SpecThird == Init /\ [][NextThird]_vars

\* the lifecycle called from two threads, any interleaving of their steps
NextConc ==
  \E t \in Threads :
    \/ PatchCall(t)
    \/ PatchCheck(t)
    \/ PatchWrap(t)
    \/ PatchSet(t)
    \/ UnpatchCall(t)
    \/ UnpatchCheck(t)
    \/ UnpatchClear(t)
    \/ UnpatchRestore(t)
    \/ UnpatchReturn(t)

SpecConc == Init /\ [][NextConc]_vars

\* imports made from two threads after one thread has installed the hooks
NextRace ==
  \/ \E t \in {MainThread} :
       \/ PatchCall(t)
       \/ PatchCheck(t)
       \/ PatchWrap(t)
       \/ PatchSet(t)
       \/ \E n \in Names, k \in HookKinds : Register(t, n, k)
  \/ \E t \in Threads :
       \/ \E n \in Names : ImportCall(t, <<n>>)
       \/ EnterWrapper(t)
       \/ OrigBegin(t)
       \/ \E ok \in BOOLEAN : OrigEnd(t, ok)
       \/ Unwind(t)
       \/ CallReturn(t)
       \/ CallDone(t)

SpecRace == Init /\ [][NextRace]_vars

(* ============================== claims ================================= *)
MainFrame == frame[MainThread]

\* how often the log records the i-th hook of module n
Fired(log, n, i) ==
  Cardinality({j \in 1..Len(log) : log[j] = Event("hook", n, i)})

HookEvents(log) == {j \in 1..Len(log) : log[j].ev = "hook"}

OrigCalls(log) == Cardinality({j \in 1..Len(log) : log[j].ev = "orig_begin"})

\* a load or reload of a module name has returned to its caller
Returned(f, op) == f.pc = "done" /\ f.op = op /\ f.name \in Names

\* C1: two or more install() calls in a row, with no uninstall() in between,
\* leave every target entry point under exactly one wrapper of this layer, and
\* the later call changes no entry point
C1_InstallTwiceOneLayer ==
  (Idle(MainThread) /\ hist.ops = <<"patch", "patch">>)
    => /\ ep = hist.before
       /\ \A i \in 1..Len(PatchTargets) : OursDepth(ep[PatchTargets[i].ep]) = 1

\* C2: after install() followed by uninstall(), every entry point install()
\* wrapped is the function that was in place before install()
C2_UninstallRestoresOriginals ==
  (Idle(MainThread) /\ hist.ops = <<"patch", "unpatch">>)
    => \A e \in hist.wrapped : ep[e] = hist.before[e]

\* C3: in every reachable state no entry point carries more than one wrapper of
\* this layer
C3_AtMostOneInstallation ==
  \A e \in EntryPoints : ep[e] # Missing => OursDepth(ep[e]) <= 1

\* C4: while patched, a successful first load of a module invokes each hook
\* registered for it exactly once during that load call
C4_FirstLoadFiresOnce ==
  \A t \in Threads :
    (/\ Returned(frame[t], "import")
     /\ frame[t].patchedAtCall
     /\ ~frame[t].cachedAtCall
     /\ frame[t].orig.kind = "return")
      => \A i \in 1..Len(hooks[frame[t].name]) : Fired(frame[t].log, frame[t].name, i) = 1

\* C5: while patched, an import of a name that is already cached invokes no
\* hook; on the legacy runtime the import wrapper sees the cached name, leaves
\* no dispatch pending and calls the original once
C5_CachedImportFiresNothing ==
  \A t \in Threads :
    (frame[t].op = "import" /\ frame[t].patchedAtCall /\ frame[t].cachedAtCall)
      => /\ HookEvents(frame[t].log) = {}
         /\ frame[t].pending = << >>
         /\ (frame[t].pc = "done" /\ ~PY3) => OrigCalls(frame[t].log) = 1

C5_Witness ==
  /\ Returned(MainFrame, "import")
  /\ ~PY3
  /\ MainFrame.patchedAtCall
  /\ MainFrame.cachedAtCall
  /\ hooks[MainFrame.name] # << >>
  /\ OursDepth(ep[BuiltinImport]) = 1

\* C6: while patched, a reload of a loaded module invokes each hook registered
\* for it exactly once during that reload call
C6_ReloadFiresOnce ==
  \A t \in Threads :
    (/\ Returned(frame[t], "reload")
     /\ frame[t].patchedAtCall
     /\ frame[t].cachedAtCall)
      => \A i \in 1..Len(hooks[frame[t].name]) : Fired(frame[t].log, frame[t].name, i) = 1

\* C7: once a hook that raises has run, every hook registered for the same
\* name has run as well, and the call's outcome is still the original's
C7_HookFailureIsolated ==
  \A t \in Threads :
    \A j \in HookEvents(frame[t].log) :
      hooks[frame[t].log[j].name][frame[t].log[j].idx] = "hook_raises"
        => /\ \A i \in 1..Len(hooks[frame[t].log[j].name]) :
                Fired(frame[t].log, frame[t].log[j].name, i) >= 1
           /\ frame[t].outcome = frame[t].orig

C7_Witness ==
  /\ Returned(MainFrame, "import")
  /\ hooks[MainFrame.name] = <<"hook_raises", "hook_ok">>
  /\ Fired(MainFrame.log, MainFrame.name, 1) = 1
  /\ Fired(MainFrame.log, MainFrame.name, 2) = 1
  /\ MainFrame.outcome = Return(MainFrame.name)

\* C8: a wrapped load, reload or import hands its caller the outcome of the
\* original entry point, value or exception, unchanged
C8_OutcomeUnchanged ==
  \A t \in Threads :
    (frame[t].op \in {"import", "reload"} /\ frame[t].pc \in {"unwind", "done"})
      => /\ frame[t].orig.kind \in {"return", "raise"}
         /\ frame[t].outcome = frame[t].orig

C8_Witness ==
  /\ Returned(MainFrame, "reload")
  /\ MainFrame.orig = Raise("Exception")
  /\ MainFrame.outcome = Raise("Exception")
  /\ \E i \in 1..Len(hooks[MainFrame.name]) :
       /\ hooks[MainFrame.name][i] = "hook_raises"
       /\ Fired(MainFrame.log, MainFrame.name, i) >= 1

\* C9: no hook of a module that is not loaded is ever invoked, and a load
\* whose original failed has invoked no hook for its name
C9_NoHookWithoutLoad ==
  \A t \in Threads :
    /\ \A j \in HookEvents(frame[t].log) : frame[t].log[j].name \in sys_modules
    /\ (frame[t].op = "import" /\ frame[t].orig.kind = "raise")
         => \A j \in HookEvents(frame[t].log) : frame[t].log[j].name # frame[t].name

C9_Witness ==
  /\ Returned(MainFrame, "import")
  /\ MainFrame.patchedAtCall
  /\ MainFrame.orig = Raise("ImportError")
  /\ hooks[MainFrame.name] # << >>
  /\ MainFrame.name \notin sys_modules
  /\ HookEvents(MainFrame.log) = {}

\* C10: every hook invocation of a call comes after the original entry point
\* has completed and before the wrapper has returned to its caller
C10_DispatchAfterOriginal ==
  \A t \in Threads :
    \A j \in HookEvents(frame[t].log) :
      /\ \E k \in 1..(j - 1) : frame[t].log[k].ev = "orig_end"
      /\ \A k \in 1..(j - 1) : frame[t].log[k].ev # "return"
      /\ frame[t].pc \in {"unwind", "done"}

C10_Witness ==
  /\ MainFrame.pc = "done"
  /\ MainFrame.op = "reload"
  /\ MainFrame.orig.kind = "raise"
  /\ HookEvents(MainFrame.log) # {}
  /\ MainFrame.log[Len(MainFrame.log)].ev = "return"


\* C11: with two threads calling install() and uninstall() in any
\* interleaving, no entry point is wrapped by both threads and none ever
\* carries a second wrapper of this layer
C11_LifecycleMutuallyExclusive ==
  \A e \in EntryPoints :
    /\ ~(\A t \in Threads : e \in frame[t].wrapped)
    /\ ep[e] # Missing => OursDepth(ep[e]) <= 1

\* C12: uninstall() restores an entry point only when the function installed
\* there is the wrapper this layer put there, and leaves any other function,
\* such as another party's wrapper, in place
C12_UninstallSkipsForeignWrapper ==
  [][\A t \in Threads :
       (/\ frame[t].pc = "unpatch_restore"
        /\ frame[t].todo # << >>
        /\ ep[Head(frame[t].todo).ep] # Missing
        /\ frame'[t] # frame[t])
         => LET e == Head(frame[t].todo).ep
                w == Head(frame[t].todo).wrapper
            IN IF ep[e] # << >> /\ Head(ep[e]) = w
                 THEN ep'[e] = Tail(ep[e])
                 ELSE ep'[e] = ep[e]]_vars

\* C13: install() and uninstall() return to their caller and never raise,
\* whatever _patch or _unpatch raised inside; uninstall() called while not
\* installed returns at once and changes neither the flag nor any entry point
C13_LifecycleNeverRaises ==
  [][/\ hist'.result # "raised"
     /\ \A t \in Threads :
          (frame[t].pc = "unpatch_check" /\ ~_patched /\ frame'[t] # frame[t])
            => /\ ep' = ep
               /\ _patched' = _patched
               /\ frame'[t].pc = "idle"
               /\ hist'.result = "returned"]_vars

C13_Witness ==
  /\ Idle(MainThread)
  /\ hist.exc = "KeyError"
  /\ hist.result = "returned"
  /\ hist.ops # << >>
  /\ hist.ops[Len(hist.ops)] = "unpatch"

\* the entry points of a strategy set
StrategyEps(targets) == {targets[i].ep : i \in 1..Len(targets)}

\* C14: one strategy set, modern or legacy, holds every entry point that
\* install() has wrapped and every entry point that install() or uninstall()
\* is about to wrap, inspect or restore
C14_OneStrategySet ==
  \E S \in {ModernTargets, LegacyTargets} :
    /\ hist.wrapped \subseteq StrategyEps(S)
    /\ \A t \in Threads :
         /\ frame[t].wrapped \subseteq StrategyEps(S)
         /\ frame[t].pc \in {"patch_wrap", "unpatch_restore"}
              => StrategyEps(frame[t].todo) \subseteq StrategyEps(S)

\* the flag goes up in a step of _patch that has wrapped every target
SetAfterWrapping ==
  (~_patched /\ _patched')
    => \E t \in Threads :
         /\ frame[t].pc = "patch_wrap"
         /\ frame[t].todo = << >>
         /\ frame[t].wrapped = StrategyEps(PatchTargets)
         /\ frame'[t].pc = "idle"

\* C15 as stated: the flag goes up only after every target is wrapped, and
\* goes down only after uninstall() has gone through every entry point
C15_FlagFollowsWork ==
  [][/\ SetAfterWrapping
     /\ (_patched /\ ~_patched')
          => \E t \in Threads :
               /\ frame[t].pc = "unpatch_restore"
               /\ frame[t].todo = << >>]_vars

\* C15: the flag goes up only after every target is wrapped; it goes down as
\* the first step of uninstall(), before any entry point is inspected or
\* restored
C15_FlagSetLastClearedFirst ==
  [][/\ SetAfterWrapping
     /\ (_patched /\ ~_patched')
          => \E t \in Threads :
               /\ frame[t].pc = "unpatch_clear"
               /\ frame'[t].pc = "unpatch_restore"
               /\ frame'[t].todo = UnpatchTargets
               /\ ep' = ep]_vars

C15_Witness ==
  /\ MainFrame.pc = "unpatch_restore"
  /\ MainFrame.todo = UnpatchTargets
  /\ ~_patched
  /\ \A i \in 1..Len(PatchTargets) : OursDepth(ep[PatchTargets[i].ep]) = 1

\* the entry point reload() goes through on this runtime
ReloadEp == IF PY3 THEN ImportlibReload ELSE BuiltinReload

\* C16: a reload whose argument yields no module name still calls the
\* original reload once and hands its outcome on unchanged; every reload
\* wrapper on the entry point dispatches with the unresolved name, and no hook
\* is invoked
C16_UnresolvedReloadGoesOn ==
  \A t \in Threads :
    (frame[t].op = "reload" /\ frame[t].name = NoneName)
      => /\ HookEvents(frame[t].log) = {}
         /\ \A i \in 1..Len(frame[t].pending) : frame[t].pending[i] = <<NoneName>>
         /\ frame[t].pc = "in_orig"
              => Len(frame[t].pending) = OursDepth(ep[ReloadEp])
         /\ frame[t].pc = "done"
              => /\ OrigCalls(frame[t].log) = 1
                 /\ frame[t].received = <<frame[t].args>>
                 /\ frame[t].orig.kind \in {"return", "raise"}
                 /\ frame[t].outcome = frame[t].orig

C16_Witness ==
  /\ MainFrame.pc = "done"
  /\ MainFrame.op = "reload"
  /\ MainFrame.name = NoneName
  /\ Len(MainFrame.args) = 1
  /\ MainFrame.patchedAtCall
  /\ OursDepth(ep[ReloadEp]) = 1
  /\ \E n \in Names : hooks[n] # << >> /\ n \in sys_modules
  /\ MainFrame.outcome = Raise("TypeError")

\* C17: whenever the flag says Unpatched and no install() or uninstall() is
\* under way, no entry point carries a wrapper of this layer and no call
\* invokes a hook
C17_UnpatchedMeansUnwrapped ==
  (~_patched /\ \A t \in Threads : frame[t].op \notin {"patch", "unpatch"})
    => /\ \A e \in EntryPoints : ep[e] # Missing => OursDepth(ep[e]) = 0
       /\ \A t \in Threads : HookEvents(frame[t].log) = {}

\* C18: a call that goes through the entry point reaches the original exactly
\* once, with the caller's arguments, whatever path the wrappers take
C18_OriginalCalledOnce ==
  \A t \in Threads :
    frame[t].op \in {"import", "reload"}
      => /\ OrigCalls(frame[t].log) <= 1
         /\ \A i \in 1..Len(frame[t].received) : frame[t].received[i] = frame[t].args
         /\ (frame[t].pc = "done" /\ ~(PY3 /\ frame[t].op = "import" /\ frame[t].cachedAtCall))
              => /\ OrigCalls(frame[t].log) = 1
                 /\ frame[t].received = <<frame[t].args>>

C18_Witness ==
  /\ Returned(MainFrame, "import")
  /\ ~PY3
  /\ MainFrame.patchedAtCall
  /\ ~MainFrame.cachedAtCall
  /\ OursDepth(ep[BuiltinImport]) = 1
  /\ \E i \in 1..Len(hooks[MainFrame.name]) :
       /\ hooks[MainFrame.name][i] = "hook_raises"
       /\ Fired(MainFrame.log, MainFrame.name, i) = 1
  /\ OrigCalls(MainFrame.log) = 1
  /\ MainFrame.received = <<MainFrame.args>>

\* C19: on the legacy variant, when two threads import the same module that
\* was not cached when either of them called, and both imports succeed, every
\* hook registered for the module is invoked exactly once in total
C19_ConcurrentFirstImportFiresOnce ==
  \A n \in Names :
    (/\ ~PY3
     /\ OursDepth(ep[BuiltinImport]) = 1
     /\ \A t \in Threads :
          /\ Returned(frame[t], "import")
          /\ frame[t].name = n
          /\ frame[t].patchedAtCall
          /\ ~frame[t].cachedAtCall
          /\ frame[t].orig.kind = "return")
      => \A i \in 1..Len(hooks[n]) :
           Fired(frame["main"].log, n, i) + Fired(frame["other"].log, n, i) = 1

====
